---- MODULE Spec2Model ----
\* Model of src/main.py (trnk8): the link creation handler (POST /), the
\* redirector (GET /{short_code}) and the listing (GET /links), running as
\* concurrent requests against the shared Supabase table `urls`.
\*
\* Strings are sequences of tokens: a URL such as "http://example.com" is
\* <<"http://", "example.com">>, so that the prefix test and the prefixing of
\* line 136-137 are computed, not assumed.
EXTENDS Naturals, Sequences, FiniteSets

\* ---------------------------------------------------------------- bounds
NumCodes == 2          \* size of the code space random.choices draws from
MaxCalls == 2          \* the per-request count of store calls saturates here

Codes == 1..NumCodes
Creators == {<<"create", 1>>, <<"create", 2>>}
Redirectors == {<<"redirect", 1>>, <<"redirect", 2>>}
Listers == {<<"links", 1>>}
Requests == Creators \cup Redirectors \cup Listers

Users == {"u1", "u2"}
Urls == { <<"example.com">>, <<"https://", "example.org">>, <<"not a url">> }
Hosts == {"example.com", "example.org"}
StoreStatuses == {"ok", "error", "unreachable"}

VARIABLES table, storeStatus, pc, form, url, user, short_code, response, reply, calls

vars == <<table, storeStatus, pc, form, url, user, short_code, response, reply, calls>>

\* ---------------------------------------------------------------- values
None == [id |-> "None"]
NoUrl == << >>
NoCode == 0
NoResponse == [status_code |-> 0, json |-> << >>, query |-> << >>]
NoReply == [status |-> 0, view |-> "", error |-> "", short_url |-> NoCode,
            location |-> NoUrl, links |-> << >>]

\* get_current_user: no cookie, or a token the auth provider rejects, gives
\* None; otherwise the dict user.user.__dict__ (a plain dict with key 'id').
get_current_user == {None} \cup {[id |-> u] : u \in Users}

\* user['id'] (line 199): item access on the dict.
GetItemId(u) == u.id

GetAttrIdOfObject(u) == u.id

\* user.id (line 163): attribute access on the dict get_current_user returned.
\* A dict has no attribute `id`: the expression raises AttributeError.
GetAttrId(u) == "AttributeError"

\* ------------------------------------------------------------- the store
\* The table `urls` behind the REST endpoint: rows in insertion order, a
\* row's created_at being its position.  The source shows no constraint on
\* short_code: a POST the store serves appends the row.
Row(u, c, o) == [original_url |-> u, short_code |-> c, user_id |-> o]

RECURSIVE Select(_, _, _)
\* the rows of t[1..n] with field f equal to v, each with its created_at
Select(t, f, v) ==
  IF t = << >> THEN << >>
  ELSE LET n == Len(t)
           rest == Select(SubSeq(t, 1, n - 1), f, v)
       IN IF t[n][f] = v
          THEN Append(rest, [original_url |-> t[n].original_url,
                             short_code |-> t[n].short_code,
                             created_at |-> n])
          ELSE rest

\* GET /rest/v1/urls?<f>=eq.<v>: the response by the store's condition;
\* status_code 0 stands for the exception httpx raises when no response
\* arrives (connection refused, timeout).
StoreGet(f, v) ==
  CASE storeStatus = "ok" ->
         [status_code |-> 200, json |-> Select(table, f, v), query |-> <<f, v>>]
    [] storeStatus = "error" ->
         [status_code |-> 503, json |-> << >>, query |-> <<f, v>>]
    [] OTHER -> [NoResponse EXCEPT !.query = <<f, v>>]

\* POST /rest/v1/urls: the status of the response (0: exception).
StorePost ==
  CASE storeStatus = "ok" -> 201
    [] storeStatus = "error" -> 503
    [] OTHER -> 0

Bump(n) == IF n < MaxCalls THEN n + 1 ELSE n

\* ----------------------------------------------------- create_short_url
StartsWithScheme(u) == Len(u) > 0 /\ u[1] \in {"http://", "https://"}

\* lines 136-137
Normalize(u) == IF StartsWithScheme(u) THEN u ELSE <<"http://">> \o u

\* validators.url: a scheme followed by a host, nothing else
ValidatorsUrl(u) ==
  Len(u) = 2 /\ u[1] \in {"http://", "https://", "ftp://"} /\ u[2] \in Hosts

UrlRejectedNever(u) == FALSE

\* line 138: `if not validators.url(url)`
UrlRejected(u) == ~ValidatorsUrl(u)

ErrorView(msg) == [NoReply EXCEPT !.status = 200, !.view = "index.html", !.error = msg]
LoginRedirect == [NoReply EXCEPT !.status = 303, !.location = <<"/login">>]

\* lines 132-139: authentication, normalisation, validation
Start(r) ==
  /\ pc[r] = "idle"
  /\ \E u \in get_current_user, x \in Urls :
       /\ user' = [user EXCEPT ![r] = u]
       /\ form' = [form EXCEPT ![r] = x]
       /\ IF u = None
          THEN /\ reply' = [reply EXCEPT ![r] = LoginRedirect]
               /\ pc' = [pc EXCEPT ![r] = "done"]
               /\ url' = url
          ELSE IF UrlRejected(Normalize(x))
          THEN /\ reply' = [reply EXCEPT ![r] = ErrorView("Invalid URL.")]
               /\ pc' = [pc EXCEPT ![r] = "done"]
               /\ url' = [url EXCEPT ![r] = Normalize(x)]
          ELSE /\ reply' = reply
               /\ pc' = [pc EXCEPT ![r] = "check"]
               /\ url' = [url EXCEPT ![r] = Normalize(x)]
  /\ UNCHANGED <<table, storeStatus, short_code, response, calls>>

AfterCheckFailedIsFree(resp) ==
  IF resp.json = << >> THEN "insert" ELSE "check"

\* lines 151-155: what the loop does with the response of the check
AfterCheck(resp) ==
  IF resp.status_code # 200 THEN "check"       \* continue
  ELSE IF resp.json = << >> THEN "insert"      \* break
  ELSE "check"                                 \* loop again

\* lines 144-155 (one turn of the loop), 171-173 when the GET raises
Check(r) ==
  /\ pc[r] = "check"
  /\ \E c \in Codes :
       LET resp == StoreGet("short_code", c) IN
       /\ short_code' = [short_code EXCEPT ![r] = c]
       /\ calls' = [calls EXCEPT ![r] = Bump(@)]
       /\ response' = [response EXCEPT ![r] = resp]
       /\ IF resp.status_code = 0
          THEN /\ reply' = [reply EXCEPT ![r] = ErrorView("An error occurred.")]
               /\ pc' = [pc EXCEPT ![r] = "done"]
          ELSE /\ reply' = reply
               /\ pc' = [pc EXCEPT ![r] = AfterCheck(resp)]
  /\ UNCHANGED <<table, storeStatus, form, url, user>>

\* lines 157-180: the insert and the reply; 171-173 when building or
\* sending the request raises
Insert(r) ==
  /\ pc[r] = "insert"
  /\ pc' = [pc EXCEPT ![r] = "done"]
  /\ LET uid == GetAttrId(user[r]) IN
     IF uid = "AttributeError"
     THEN /\ reply' = [reply EXCEPT ![r] = ErrorView("An error occurred.")]
          /\ UNCHANGED <<table, calls>>
     ELSE /\ calls' = [calls EXCEPT ![r] = Bump(@)]
          /\ IF StorePost = 201
             THEN /\ table' = Append(table, Row(url[r], short_code[r], uid))
                  /\ \E hx \in BOOLEAN :
                       reply' = [reply EXCEPT ![r] =
                         [NoReply EXCEPT !.status = 200,
                            !.view = IF hx THEN "partials/short_url.html" ELSE "index.html",
                            !.short_url = short_code[r]]]
             ELSE /\ table' = table
                  /\ reply' = [reply EXCEPT ![r] =
                       IF StorePost = 0 THEN ErrorView("An error occurred.")
                       ELSE ErrorView("Failed to save URL.")]
  /\ UNCHANGED <<storeStatus, form, url, user, short_code, response>>

\* ------------------------------------------------------- redirect_url
HTTPException(code) == [NoReply EXCEPT !.status = code]
RedirectResponse(u) == [NoReply EXCEPT !.status = 307, !.location = u]

\* lines 243-251: the body of the try block; an HTTPException it raises is
\* marked by view "raised"
RedirectTry(resp) ==
  IF resp.status_code = 0 THEN [HTTPException(0) EXCEPT !.view = "raised"]
  ELSE IF resp.status_code # 200 THEN [HTTPException(404) EXCEPT !.view = "raised"]
  ELSE IF resp.json # << >> THEN RedirectResponse(resp.json[1].original_url)
  ELSE [HTTPException(404) EXCEPT !.view = "raised"]

\* lines 252-254: `except Exception` catches whatever the try block raised,
\* the HTTPException of lines 245 and 251 included, and raises a 500
RedirectReply(resp) ==
  LET t == RedirectTry(resp) IN
  IF t.view = "raised" THEN HTTPException(500) ELSE t

\* lines 234-254
Redirect(r) ==
  /\ pc[r] = "idle"
  /\ \E c \in Codes :
       LET resp == StoreGet("short_code", c) IN
       /\ short_code' = [short_code EXCEPT ![r] = c]
       /\ response' = [response EXCEPT ![r] = resp]
       /\ reply' = [reply EXCEPT ![r] = RedirectReply(resp)]
  /\ pc' = [pc EXCEPT ![r] = "done"]
  /\ calls' = [calls EXCEPT ![r] = Bump(@)]
  /\ UNCHANGED <<table, storeStatus, form, url, user>>

\* --------------------------------------------------------------- links
RECURSIVE Reverse(_)
Reverse(s) == IF s = << >> THEN << >> ELSE Append(Reverse(Tail(s)), Head(s))

LinksQueryUnfiltered(uid) ==
  LET resp == StoreGet("user_id", uid) IN
  IF resp.status_code # 200 THEN resp
  ELSE [resp EXCEPT !.json = Select(table, "user_id", "u1") \o Select(table, "user_id", "u2")]

\* lines 197-201: user_id=eq.<id>, order=created_at.desc
LinksQuery(uid) == StoreGet("user_id", uid)

\* lines 188-212
Links(r) ==
  /\ pc[r] = "idle"
  /\ pc' = [pc EXCEPT ![r] = "done"]
  /\ \E u \in get_current_user :
       /\ user' = [user EXCEPT ![r] = u]
       /\ IF u = None
          THEN /\ reply' = [reply EXCEPT ![r] = LoginRedirect]
               /\ UNCHANGED <<response, calls>>
          ELSE LET resp == LinksQuery(GetItemId(u)) IN
               /\ response' = [response EXCEPT ![r] = resp]
               /\ calls' = [calls EXCEPT ![r] = Bump(@)]
               /\ reply' = [reply EXCEPT ![r] =
                    IF resp.status_code # 200 THEN HTTPException(500)
                    ELSE [NoReply EXCEPT !.status = 200, !.view = "links.html",
                                         !.links = Reverse(resp.json)]]
  /\ UNCHANGED <<table, storeStatus, form, url, short_code>>

\* ---------------------------------------------------------- environment
\* the store becomes available, failing or unreachable
StoreChange ==
  /\ \E s \in StoreStatuses \ {storeStatus} : storeStatus' = s
  /\ UNCHANGED <<table, pc, form, url, user, short_code, response, reply, calls>>

\* rows committed before the process started, their codes distinct
InitTables ==
  { << >>,
    << Row(<<"http://", "example.com">>, 1, "u1") >>,
    << Row(<<"http://", "example.com">>, 1, "u1"),
       Row(<<"https://", "example.org">>, 2, "u2") >> }

Init ==
  /\ table \in InitTables
  /\ storeStatus \in StoreStatuses
  /\ pc = [r \in Requests |-> "idle"]
  /\ form = [r \in Requests |-> NoUrl]
  /\ url = [r \in Requests |-> NoUrl]
  /\ user = [r \in Requests |-> None]
  /\ short_code = [r \in Requests |-> NoCode]
  /\ response = [r \in Requests |-> NoResponse]
  /\ reply = [r \in Requests |-> NoReply]
  /\ calls = [r \in Requests |-> 0]

\* Creation requests against the store.  The redirector and the listing only
\* read the table, so they are left out of this specification's steps.
Next ==
  \/ \E r \in Creators : Start(r)
  \/ \E r \in Creators : Check(r)
  \/ \E r \in Creators : Insert(r)
  \/ StoreChange

Spec == Init /\ [][Next]_vars

\* Each request is an asyncio task of the server: a request that can take its
\* next step eventually takes it.  Nothing is assumed of the store.
FairSpec ==
  /\ Spec
  /\ \A r \in Creators : WF_vars(Start(r)) /\ WF_vars(Check(r)) /\ WF_vars(Insert(r))

\* Redirect requests against the store.
NextRedirect ==
  \/ \E r \in Redirectors : Redirect(r)
  \/ StoreChange

RedirectSpec == Init /\ [][NextRedirect]_vars

\* Creation requests of any users, and a listing at any moment among them.
NextLinks ==
  \/ \E r \in Creators : Start(r)
  \/ \E r \in Creators : Check(r)
  \/ \E r \in Creators : Insert(r)
  \/ \E r \in Listers : Links(r)
  \/ StoreChange

LinksSpec == Init /\ [][NextLinks]_vars

\* ================================================================ claims

IsFree(resp) == resp.status_code = 200 /\ resp.json = << >>
StoreFailed(resp) == resp.status_code # 200
Failed(rep) == rep.error # ""

C2_NoCreationReturnsACode ==
  \A r \in Creators : reply[r].short_url = NoCode

\* C3: while the store keeps answering every check with a non-success
\* status, a creation request in the generate-check loop comes to an end.
C3_TerminatesUnderOutage ==
  \A r \in Creators :
     (pc[r] = "check" /\ storeStatus = "error")
        ~> (pc[r] = "done" \/ storeStatus # "error")

\* C4: a redirect whose lookup the store answered with success and no row
\* is answered 404.
C4_AbsentIs404 ==
  \A r \in Redirectors :
     (pc[r] = "done" /\ IsFree(response[r])) => reply[r].status = 404

\* C5: a redirect on a store failure and a redirect on an absent code never
\* get the same status, and a store failure is never answered 404.
C5_FailureDistinctFromAbsent ==
  \A a, b \in Redirectors :
     (pc[a] = "done" /\ pc[b] = "done" /\ StoreFailed(response[a]) /\ IsFree(response[b]))
        => (reply[a].status # reply[b].status /\ reply[a].status # 404)

\* C6: a creation request of an authenticated user whose normalized URL is
\* not well-formed ends at once with the validation error, having made no
\* store call and with the table as it was.
C6_InvalidUrlNoStoreCall ==
  [][\A r \in Creators :
       (pc[r] = "idle" /\ pc'[r] # "idle" /\ user'[r] # None
          /\ ~ValidatorsUrl(Normalize(form'[r])))
       => (/\ pc'[r] = "done"
           /\ reply'[r] = ErrorView("Invalid URL.")
           /\ calls'[r] = 0
           /\ response'[r] = NoResponse
           /\ table' = table)]_vars

\* An input without a scheme was prefixed, found malformed and rejected.
C6_Witness ==
  \E r \in Creators :
     /\ pc[r] = "done" /\ form[r] = <<"not a url">>
     /\ url[r] = <<"http://", "not a url">>
     /\ reply[r].error = "Invalid URL." /\ calls[r] = 0

\* C7: a creation request stands at its insert only if its most recent
\* check was for the code it holds, was answered 200 and reported no row.
C7_InsertOnlyAfterFreeCheck ==
  \A r \in Creators :
     pc[r] = "insert"
       => (/\ response[r].status_code = 200
           /\ response[r].json = << >>
           /\ response[r].query = <<"short_code", short_code[r]>>)

\* A request reached its insert after an earlier check that was not
\* conclusive: the table is empty, so only a failed check made it loop.
C7_Witness ==
  \E r \in Creators : pc[r] = "insert" /\ calls[r] >= 2 /\ table = << >>

\* C8: a failed insert does not by itself end the creation request in
\* failure (a request makes its first insert attempt when it leaves the
\* insert statement; the claim has it go back to candidate generation).
C8_FailedInsertIsRetried ==
  [][\A r \in Creators :
       (pc[r] = "insert" /\ pc'[r] = "done") => ~Failed(reply'[r])]_vars

\* C9: for an authenticated owner and a valid URL, when the check reported
\* the code free and the store serves the insert, exactly one row with the
\* code, the normalized URL and the owner's id is committed and the code
\* is returned.
C9_CreationCommits ==
  [][\A r \in Creators :
       (pc[r] = "insert" /\ pc'[r] # "insert" /\ storeStatus = "ok")
       => (/\ table' = Append(table, Row(url[r], short_code[r], GetItemId(user[r])))
           /\ reply'[r].short_url = short_code[r]
           /\ ~Failed(reply'[r]))]_vars

\* C10: the rows a finished listing shows are rows of the table owned by
\* the user it was made for, and a request without a user shows none.
C10_ListingOnlyOwnRows ==
  \A l \in Listers :
     pc[l] = "done" =>
       /\ user[l] = None => reply[l].links = << >>
       /\ \A i \in 1..Len(reply[l].links) :
            LET k == reply[l].links[i].created_at IN
            /\ k \in 1..Len(table)
            /\ table[k].user_id = user[l].id
            /\ table[k].short_code = reply[l].links[i].short_code

\* A listing showed rows while the table held a row of another owner.
C10_Witness ==
  \E l \in Listers :
     /\ pc[l] = "done" /\ reply[l].links # << >>
     /\ \E k \in 1..Len(table) : table[k].user_id # user[l].id

====
